---- MODULE Spec2Model ----
(***************************************************************************)
(* The live acquisition session of live_Lucid_PHX004_MC.py: main(),        *)
(* create_devices_with_tries_ip(), setup() and restore_initial_settings(). *)
(* One action per statement (or group of statements) of the script; the    *)
(* vendor SDK, the ping process and OpenCV are the environment: a call     *)
(* into them either returns or raises, chosen nondeterministically.        *)
(***************************************************************************)
EXTENDS Integers, Sequences, FiniteSets, TLC

(* ------------------------------ Settings ------------------------------ *)
EXP_TIME_US == 20000
FPS == 45
BINNING == 4
BYTES_PER_PIXEL == 2
num_channels == 3
PIXEL_FORMAT == "Mono12"
tries_max == 6

(* ------------------------------ bounds -------------------------------- *)
\* how many device parameters may initially differ from DeviceDefaults
MaxDeviated == 1
\* largest difference between two consecutive time.time() readings
MaxDt == 1
\* largest exposure time and limit tried on the clamp
MaxExposure == 4
\* largest width, height and enlargement factor of a decoded buffer
MaxWidth == 2
MaxHeight == 2
MaxBinning == 2
\* number of byte patterns a buffer is filled with, less one
MaxSeed == 3

(* ------------------------- parameter names ---------------------------- *)
selected_parameters ==
    << "PixelFormat", "ExposureAuto", "ExposureTime",
       "AcquisitionFrameRateEnable", "AcquisitionFrameRate",
       "TriggerSelector", "TriggerMode", "TriggerSource",
       "BinningHorizontal", "BinningVertical" >>

\* the nodes of device.tl_stream_nodemap that setup writes
StreamParameters ==
    << "StreamBufferHandlingMode", "StreamAutoNegotiatePacketSize",
       "StreamPacketResendEnable" >>

AllParameters == selected_parameters \o StreamParameters

Range(s) == {s[i] : i \in 1..Len(s)}

\* the reported limits of ExposureTime; the three pairs put EXP_TIME_US
\* inside the range, below its minimum and above its maximum
ExposureLimits == { <<1000, 100000>>, <<25000, 100000>>, <<1000, 15000>> }

\* a device as a camera that no script has configured yet presents itself
DeviceDefaults(lim) ==
    [ PixelFormat                   |-> "Mono8",
      ExposureAuto                  |-> "Continuous",
      ExposureTime                  |-> lim[1],
      AcquisitionFrameRateEnable    |-> FALSE,
      AcquisitionFrameRate          |-> 30,
      TriggerSelector               |-> "FrameStart",
      TriggerMode                   |-> "Off",
      TriggerSource                 |-> "Software",
      BinningHorizontal             |-> 1,
      BinningVertical               |-> 1,
      StreamBufferHandlingMode      |-> "OldestFirst",
      StreamAutoNegotiatePacketSize |-> FALSE,
      StreamPacketResendEnable      |-> FALSE ]

\* a second value of each parameter, as an earlier script may have left it
DeviceOther(lim) ==
    [ PixelFormat                   |-> "Mono12",
      ExposureAuto                  |-> "Off",
      ExposureTime                  |-> lim[2],
      AcquisitionFrameRateEnable    |-> TRUE,
      AcquisitionFrameRate          |-> 45,
      TriggerSelector               |-> "LineStart",
      TriggerMode                   |-> "On",
      TriggerSource                 |-> "Line0",
      BinningHorizontal             |-> 4,
      BinningVertical               |-> 4,
      StreamBufferHandlingMode      |-> "NewestOnly",
      StreamAutoNegotiatePacketSize |-> TRUE,
      StreamPacketResendEnable      |-> TRUE ]

DeviceStates(lim) ==
    { [p \in Range(AllParameters) |->
          IF p \in D THEN DeviceOther(lim)[p] ELSE DeviceDefaults(lim)[p]] :
      D \in {S \in SUBSET Range(AllParameters) : Cardinality(S) <= MaxDeviated} }

\* ClampExposure without the elif branch for the minimum
ClampExposureUpperOnly(requested, min_exp, max_exp) ==
    IF requested > max_exp THEN max_exp ELSE requested

\* setup, lines 199-207: the exposure time that is written
ClampExposure(requested, min_exp, max_exp) ==
    IF requested > max_exp THEN max_exp
    ELSE IF requested < min_exp THEN min_exp
    ELSE requested

\* the nodes setup writes after it has stored the settings, in the order of
\* its statements (lines 181-231)
ApplyOrder ==
    << "AcquisitionFrameRateEnable", "AcquisitionFrameRate", "ExposureAuto",
       "ExposureTime", "TriggerSelector", "TriggerMode",
       "BinningHorizontal", "BinningVertical",
       "StreamBufferHandlingMode", "StreamAutoNegotiatePacketSize",
       "StreamPacketResendEnable" >>

\* the value each of these statements assigns
ApplyValue(p, lim) ==
    CASE p = "AcquisitionFrameRateEnable"    -> TRUE
      [] p = "AcquisitionFrameRate"          -> FPS
      [] p = "ExposureAuto"                  -> "Off"
      [] p = "ExposureTime"                  -> ClampExposure(EXP_TIME_US, lim[1], lim[2])
      [] p = "TriggerSelector"               -> "FrameStart"
      [] p = "TriggerMode"                   -> "Off"
      [] p = "BinningHorizontal"             -> BINNING
      [] p = "BinningVertical"               -> BINNING
      [] p = "StreamBufferHandlingMode"      -> "NewestOnly"
      [] p = "StreamAutoNegotiatePacketSize" -> TRUE
      [] p = "StreamPacketResendEnable"      -> TRUE

(* ------------------------ decoding a buffer --------------------------- *)
\* lines 73-78: the bytes at the address of item.pbytes seen as an array of
\* shape (height, width, BYTES_PER_PIXEL).  The ctypes array that wraps the
\* address is num_channels * width * height bytes long, whatever the length
\* of the data, so the view never fails for want of bytes: mem is the data
\* followed by what lies behind it in memory.
Npndarray(mem, height, width) ==
    [r \in 1..height |->
        [c \in 1..width |->
            [b \in 1..BYTES_PER_PIXEL |->
                mem[((r - 1) * width + (c - 1)) * BYTES_PER_PIXEL + b]]]]

\* ViewUint16 with the two bytes of a pixel taken high byte first
ViewUint16BigEndian(nd) ==
    [r \in 1..Len(nd) |->
        [c \in 1..Len(nd[r]) |-> 256 * nd[r][c][1] + nd[r][c][2]]]

\* line 81: npndarray.view(np.uint16).reshape(height, width); the hosts the
\* camera SDK runs on are little-endian
ViewUint16(nd) ==
    [r \in 1..Len(nd) |->
        [c \in 1..Len(nd[r]) |-> nd[r][c][1] + 256 * nd[r][c][2]]]

\* np.repeat(a, k, axis): every element k times in a row
Repeat(a, k) == [i \in 1..(Len(a) * k) |-> a[((i - 1) \div k) + 1]]

\* lines 73-87: image_16bit
Image16(mem, height, width, k) ==
    LET img == ViewUint16(Npndarray(mem, height, width)) IN
    IF k > 1
    THEN LET rows == Repeat(img, k)
         IN [i \in 1..Len(rows) |-> Repeat(rows[i], k)]
    ELSE img

\* the bytes the decoding reads
BytesNeeded(height, width) == height * width * BYTES_PER_PIXEL

\* buffers to decode: a byte pattern of the right length, one byte short
\* and one byte long
Pattern(seed, n) == [i \in 1..n |-> (seed * 83 + i * 37) % 256]
Items ==
    { [data |-> Pattern(seed, BytesNeeded(h, w) + d), width |-> w, height |-> h] :
      seed \in 0..MaxSeed, w \in 1..MaxWidth, h \in 1..MaxHeight, d \in {-1, 0, 1} }

\* what a read behind the end of the data can find
StrayBytes == {0, 255}

(* ------------------------------- state -------------------------------- *)
VARIABLES
    pc,                 \* the statement main() is at
    raising,            \* an exception is propagating (through the finally block)
    outcome,            \* "running", "returned" or "raised"
    tries,              \* create_devices_with_tries_ip: tries
    devices,            \* whether system.create_device() has returned a device
    discoverCalls,      \* calls of system.create_device()
    probeCalls,         \* calls of ping_host()
    dev,                \* the device's parameter values, by node name
    limits,             \* <<ExposureTime.min, ExposureTime.max>> of the device
    dev0,               \* the parameter values when the session began
    initial_settings,   \* setup: the dict of stored settings
    idx,                \* position in the list a loop of setup/restore walks
    streaming,          \* the device is streaming
    frame_interval,     \* curr_frame_time - prev_frame_time
    buffer,             \* raw driver buffers checked out and not requeued
    item,               \* a local copy of a buffer exists and is not destroyed
    log,                \* the session's calls that connect, configure, start,
                        \* stop, restore and release the device, in order
    exit_cause,         \* what ended the try block: "none", "start", "acquire",
                        \* "fps", "interrupt" or "esc"
    rendered,           \* cv2.imshow has shown the frame of this iteration
    esc_pressed,        \* the ESC key has been pressed and not yet read
    requested,          \* the exposure time asked for (Settings.EXP_TIME_US)
    applied,            \* the exposure time that is written
    item_data,          \* item.data, item.width and item.height of a copied buffer
    binning,            \* the factor the image is enlarged by (Settings.BINNING)
    image_16bit         \* the decoded image, a sequence of rows

vars == << pc, raising, outcome, tries, devices, discoverCalls, probeCalls,
           dev, limits, dev0, initial_settings, idx, streaming,
           frame_interval, buffer, item, log, exit_cause, rendered,
           esc_pressed, requested, applied, item_data, binning, image_16bit >>

Op(op, node, ok) == [op |-> op, node |-> node, ok |-> ok]

\* an exception leaves main() where no try block encloses the statement
Raise ==
    /\ pc' = "exit"
    /\ outcome' = "raised"
    /\ raising' = TRUE

\* no exposure time written yet, no buffer copied yet
NoValue == -1
NoItem  == [data |-> << >>, width |-> 0, height |-> 0]

Init ==
    /\ pc = "connect"
    /\ raising = FALSE
    /\ outcome = "running"
    /\ tries = 0
    /\ devices = FALSE
    /\ discoverCalls = 0
    /\ probeCalls = 0
    /\ limits \in ExposureLimits
    /\ dev \in DeviceStates(limits)
    /\ dev0 = dev
    /\ initial_settings = << >>
    /\ idx = 0
    /\ streaming = FALSE
    /\ frame_interval = 0
    /\ buffer = 0
    /\ item = FALSE
    /\ log = << >>
    /\ exit_cause = "none"
    /\ rendered = FALSE
    /\ esc_pressed = FALSE
    /\ requested = EXP_TIME_US
    /\ applied = NoValue
    /\ item_data = NoItem
    /\ binning = BINNING
    /\ image_16bit = << >>

connVars == << tries, devices, discoverCalls, probeCalls >>
devVars  == << dev, limits, dev0 >>
loopVars == << frame_interval, buffer, item >>
keyVars  == << exit_cause, rendered, esc_pressed >>
pureVars == << requested, applied, item_data, binning, image_16bit >>

(* ------------------- create_devices_with_tries_ip --------------------- *)
\* while tries < tries_max: devices = system.create_device()
\* if devices: return devices
Discover ==
    /\ pc = "connect"
    /\ tries < tries_max
    /\ discoverCalls' = discoverCalls + 1
    /\ \E found \in BOOLEAN :
          /\ devices' = found
          /\ pc' = IF found THEN "select" ELSE "ping1"
    /\ UNCHANGED << raising, outcome, tries, probeCalls, devVars,
                    initial_settings, idx, streaming, loopVars, log >>
    /\ UNCHANGED << keyVars, pureVars >>

\* PingHost with the second ping_host call left out
PingHostOnce ==
    /\ pc \in {"ping1", "ping2"}
    /\ probeCalls' = probeCalls + 1
    /\ pc' = "connect"
    /\ tries' = tries + 1
    /\ UNCHANGED << raising, outcome, devices, discoverCalls, devVars,
                    initial_settings, idx, streaming, loopVars, log >>
    /\ UNCHANGED << keyVars, pureVars >>

\* ping_host(Settings.CAMERA_IP), twice; then tries += 1
PingHost ==
    /\ pc \in {"ping1", "ping2"}
    /\ probeCalls' = probeCalls + 1
    /\ pc' = IF pc = "ping1" THEN "ping2" ELSE "connect"
    /\ tries' = IF pc = "ping2" THEN tries + 1 ELSE tries
    /\ UNCHANGED << raising, outcome, devices, discoverCalls, devVars,
                    initial_settings, idx, streaming, loopVars, log >>
    /\ UNCHANGED << keyVars, pureVars >>

\* NoDeviceFound with the empty device list returned instead of the raise
NoDeviceFoundReturns ==
    /\ pc = "connect"
    /\ ~(tries < tries_max)
    /\ pc' = "select"
    /\ UNCHANGED << raising, outcome, connVars, devVars, initial_settings, idx,
                    streaming, loopVars, log >>
    /\ UNCHANGED << keyVars, pureVars >>

\* the while loop's else branch: raise Exception('No device found! ...')
NoDeviceFound ==
    /\ pc = "connect"
    /\ ~(tries < tries_max)
    /\ Raise
    /\ UNCHANGED << connVars, devVars, initial_settings, idx, streaming,
                    loopVars, log >>
    /\ UNCHANGED << keyVars, pureVars >>

(* ------------------------- main, before setup ------------------------- *)
\* device = system.select_device(devices)
SelectDevice ==
    /\ pc = "select"
    /\ pc' = "features"
    /\ log' = Append(log, Op("select_device", "", TRUE))
    /\ UNCHANGED << raising, outcome, connVars, devVars, initial_settings, idx,
                    streaming, loopVars >>
    /\ UNCHANGED << keyVars, pureVars >>

\* save_features_to_file(...) and write_streamable_node_values_to(...):
\* the two files are written, or opening one of them raises
SaveFeatures ==
    /\ pc = "features"
    /\ \E ok \in BOOLEAN :
          /\ log' = Append(log, Op("save_features", "", ok))
          /\ IF ok THEN /\ pc' = "get_node"
                        /\ UNCHANGED << raising, outcome >>
                   ELSE Raise
    /\ UNCHANGED << connVars, devVars, initial_settings, idx, streaming, loopVars >>
    /\ UNCHANGED << keyVars, pureVars >>

(* ------------------------------- setup -------------------------------- *)
\* node.value = v: the device takes the value, or rejects it and the
\* assignment raises
WriteNode(p, v, ok) ==
    /\ dev' = IF ok THEN [dev EXCEPT ![p] = v] ELSE dev
    /\ log' = Append(log, Op("write", p, ok))
    /\ UNCHANGED << limits, dev0 >>

\* nodes = nodemap.get_node(selected_parameters): raises when the device
\* does not know one of the names
GetNodes ==
    /\ pc = "get_node"
    /\ \E ok \in BOOLEAN :
          /\ log' = Append(log, Op("get_node", "", ok))
          /\ IF ok THEN /\ pc' = "pixel_format"
                        /\ UNCHANGED << raising, outcome >>
                   ELSE Raise
    /\ UNCHANGED << connVars, devVars, initial_settings, idx, streaming, loopVars >>
    /\ UNCHANGED << keyVars, pureVars >>

\* nodes['PixelFormat'].value = Settings.PIXEL_FORMAT   (line 172)
SetPixelFormat ==
    /\ pc = "pixel_format"
    /\ \E ok \in BOOLEAN :
          /\ WriteNode("PixelFormat", PIXEL_FORMAT, ok)
          /\ IF ok THEN /\ pc' = "store"
                        /\ idx' = 1
                        /\ UNCHANGED << raising, outcome >>
                   ELSE /\ Raise
                        /\ UNCHANGED idx
    /\ UNCHANGED << connVars, initial_settings, streaming, loopVars >>
    /\ UNCHANGED << keyVars, pureVars >>

\* for param in selected_parameters:
\*     initial_settings[param] = nodes[param].value
StoreInitial ==
    /\ pc = "store"
    /\ idx <= Len(selected_parameters)
    /\ LET param == selected_parameters[idx] IN
       \E ok \in BOOLEAN :
          /\ log' = Append(log, Op("read", param, ok))
          /\ IF ok
             THEN /\ initial_settings' = (param :> dev[param]) @@ initial_settings
                  /\ idx' = IF idx = Len(selected_parameters) THEN 1 ELSE idx + 1
                  /\ pc' = IF idx = Len(selected_parameters) THEN "apply" ELSE "store"
                  /\ UNCHANGED << raising, outcome >>
             ELSE /\ Raise
                  /\ UNCHANGED << initial_settings, idx >>
    /\ UNCHANGED << connVars, devVars, streaming, loopVars >>
    /\ UNCHANGED << keyVars, pureVars >>

\* lines 181-231: the assignments to the nodes of ApplyOrder, one per step;
\* an assignment the device rejects raises out of setup.  The print
\* statements between them only read values back and change nothing;
\* ExposureTime.min and .max (lines 194-195) are the device's limits.
ApplyWrite ==
    /\ pc = "apply"
    /\ idx <= Len(ApplyOrder)
    /\ LET p == ApplyOrder[idx] IN
       \E ok \in BOOLEAN :
          /\ WriteNode(p, ApplyValue(p, limits), ok)
          /\ IF ok
             THEN /\ idx' = IF idx = Len(ApplyOrder) THEN 0 ELSE idx + 1
                  /\ pc' = IF idx = Len(ApplyOrder) THEN "prev_time" ELSE "apply"
                  /\ UNCHANGED << raising, outcome >>
             ELSE /\ Raise
                  /\ UNCHANGED idx
    /\ UNCHANGED << connVars, initial_settings, streaming, loopVars >>
    /\ UNCHANGED << keyVars, pureVars >>

(* --------------------------- main, the loop --------------------------- *)
\* prev_frame_time = time.time()   (line 58)
ReadPrevTime ==
    /\ pc = "prev_time"
    /\ pc' = "start_stream"
    /\ frame_interval' = 0
    /\ UNCHANGED << raising, outcome, connVars, devVars, initial_settings, idx,
                    streaming, buffer, item, log >>
    /\ UNCHANGED << keyVars, pureVars >>

\* an exception inside the try block: the with block is left (the stream's
\* context manager ends the stream) and the finally block runs
RaiseInTry(cause) ==
    /\ pc' = "stop_stream"
    /\ raising' = TRUE
    /\ streaming' = FALSE
    /\ exit_cause' = cause
    /\ UNCHANGED outcome

\* with device.start_stream():
StartStream ==
    /\ pc = "start_stream"
    /\ \E ok \in BOOLEAN :
          /\ log' = Append(log, Op("start_stream", "", ok))
          /\ IF ok THEN /\ pc' = "loop"
                        /\ streaming' = TRUE
                        /\ UNCHANGED << raising, outcome, exit_cause >>
                   ELSE RaiseInTry("start")
    /\ UNCHANGED << connVars, devVars, initial_settings, idx, loopVars >>
    /\ UNCHANGED << rendered, esc_pressed, pureVars >>

\* curr_frame_time = time.time()   (line 63)
ReadCurrTime ==
    /\ pc = "loop"
    /\ pc' = "get_buffer"
    /\ frame_interval' \in 0..MaxDt
    /\ UNCHANGED << raising, outcome, connVars, devVars, initial_settings, idx,
                    streaming, buffer, item, log >>
    /\ rendered' = FALSE
    /\ UNCHANGED << exit_cause, esc_pressed, pureVars >>

\* buffer = device.get_buffer(): raises when no buffer arrives in time
GetBuffer ==
    /\ pc = "get_buffer"
    /\ \E ok \in BOOLEAN :
          /\ IF ok THEN /\ pc' = "copy"
                        /\ buffer' = buffer + 1
                        /\ UNCHANGED << raising, outcome, streaming, exit_cause >>
                   ELSE /\ RaiseInTry("acquire")
                        /\ UNCHANGED buffer
    /\ UNCHANGED << connVars, devVars, initial_settings, idx, frame_interval, item, log >>
    /\ UNCHANGED << rendered, esc_pressed, pureVars >>

\* item = BufferFactory.copy(buffer)
CopyBuffer ==
    /\ pc = "copy"
    /\ pc' = "requeue"
    /\ item' = TRUE
    /\ UNCHANGED << raising, outcome, connVars, devVars, initial_settings, idx,
                    streaming, frame_interval, buffer, log >>
    /\ UNCHANGED << keyVars, pureVars >>

\* RequeueBuffer with the requeue_buffer call missing
RequeueBufferMissing ==
    /\ pc = "requeue"
    /\ pc' = "decode"
    /\ UNCHANGED << raising, outcome, connVars, devVars, initial_settings, idx,
                    streaming, loopVars, log, keyVars, pureVars >>

\* device.requeue_buffer(buffer)
RequeueBuffer ==
    /\ pc = "requeue"
    /\ pc' = "decode"
    /\ buffer' = buffer - 1
    /\ UNCHANGED << raising, outcome, connVars, devVars, initial_settings, idx,
                    streaming, frame_interval, item, log >>
    /\ UNCHANGED << keyVars, pureVars >>

\* lines 73-93: the array views of item, np.repeat, np.max, convertScaleAbs
Decode ==
    /\ pc = "decode"
    /\ pc' = "fps"
    /\ UNCHANGED << raising, outcome, connVars, devVars, initial_settings, idx,
                    streaming, loopVars, log >>
    /\ UNCHANGED << keyVars, pureVars >>

\* fps = "fps: " + str(int(1 / (curr_frame_time - prev_frame_time)))
\* raises ZeroDivisionError when the two readings are equal;
\* then cv2.putText(...) and cv2.imshow(...)
ShowFrame ==
    /\ pc = "fps"
    /\ IF frame_interval = 0
       THEN /\ RaiseInTry("fps")
            /\ UNCHANGED rendered
       ELSE /\ pc' = "destroy_item"
            /\ rendered' = TRUE
            /\ UNCHANGED << raising, outcome, streaming, exit_cause >>
    /\ UNCHANGED << connVars, devVars, initial_settings, idx, loopVars, log >>
    /\ UNCHANGED << esc_pressed, pureVars >>

\* BufferFactory.destroy(item); prev_frame_time = curr_frame_time
DestroyItem ==
    /\ pc = "destroy_item"
    /\ pc' = "wait_key"
    /\ item' = FALSE
    /\ frame_interval' = 0
    /\ UNCHANGED << raising, outcome, connVars, devVars, initial_settings, idx,
                    streaming, buffer, log >>
    /\ UNCHANGED << keyVars, pureVars >>

LoopPcs == {"loop", "get_buffer", "copy", "requeue", "decode", "fps",
            "destroy_item", "wait_key"}

\* the codes cv2.waitKey returns for the ESC key and for no key
ESC   == 27
NoKey == -1

\* the user presses ESC in the display window while the loop runs; the key
\* waits in the window's event queue until cv2.waitKey reads it
PressEsc ==
    /\ pc \in LoopPcs
    /\ ~esc_pressed
    /\ esc_pressed' = TRUE
    /\ UNCHANGED << pc, raising, outcome, connVars, devVars, initial_settings, idx,
                    streaming, loopVars, log, exit_cause, rendered, pureVars >>

\* WaitKey with the break missing: the ESC key is read and the loop goes on
WaitKeyNoBreak ==
    /\ pc = "wait_key"
    /\ \E key \in (IF esc_pressed THEN {ESC, NoKey} ELSE {NoKey}) :
          /\ pc' = "loop"
          /\ exit_cause' = IF key = ESC THEN "esc" ELSE exit_cause
          /\ esc_pressed' = IF key = ESC THEN FALSE ELSE esc_pressed
    /\ UNCHANGED << raising, outcome, connVars, devVars, initial_settings, idx,
                    streaming, loopVars, log, rendered, pureVars >>

\* key = cv2.waitKey(1); if key == 27: break
\* (another key read first leaves a pressed ESC for a later call)
WaitKey ==
    /\ pc = "wait_key"
    /\ \E key \in (IF esc_pressed THEN {ESC, NoKey} ELSE {NoKey}) :
          IF key = ESC
          THEN /\ pc' = "stop_stream"
               /\ streaming' = FALSE
               /\ exit_cause' = "esc"
               /\ esc_pressed' = FALSE
          ELSE /\ pc' = "loop"
               /\ UNCHANGED << streaming, exit_cause, esc_pressed >>
    /\ UNCHANGED << raising, outcome, connVars, devVars, initial_settings, idx,
                    loopVars, log >>
    /\ UNCHANGED << rendered, pureVars >>

\* KeyboardInterrupt delivered while the loop runs (the interrupt the session
\* is stopped with from outside; it is taken at any statement of the loop)
Interrupt ==
    /\ pc \in LoopPcs
    /\ RaiseInTry("interrupt")
    /\ UNCHANGED << connVars, devVars, initial_settings, idx, loopVars, log >>
    /\ UNCHANGED << rendered, esc_pressed, pureVars >>

(* ----------------------- main, the finally block ---------------------- *)
\* device.stop_stream()
StopStream ==
    /\ pc = "stop_stream"
    /\ \E ok \in BOOLEAN :
          /\ log' = Append(log, Op("stop_stream", "", ok))
          /\ IF ok THEN /\ pc' = "restore"
                        /\ UNCHANGED << raising, outcome >>
                   ELSE Raise
    /\ UNCHANGED << connVars, devVars, initial_settings, idx, streaming, loopVars >>
    /\ UNCHANGED << keyVars, pureVars >>

\* CallRestore placed ahead of device.stop_stream() in the finally block
CallRestoreBeforeStop ==
    /\ pc = "stop_stream"
    /\ pc' = "restore_loop"
    /\ idx' = 1
    /\ log' = Append(log, Op("restore", "", TRUE))
    /\ UNCHANGED << raising, outcome, connVars, devVars, initial_settings,
                    streaming, loopVars, keyVars, pureVars >>

\* restore_initial_settings(nodes, selected_nodes, initial_settings) is called
CallRestore ==
    /\ pc = "restore"
    /\ pc' = "restore_loop"
    /\ idx' = 1
    /\ log' = Append(log, Op("restore", "", TRUE))
    /\ UNCHANGED << raising, outcome, connVars, devVars, initial_settings,
                    streaming, loopVars >>
    /\ UNCHANGED << keyVars, pureVars >>

\* for param in selected_parameters:
\*     nodes[param].value = initial_settings[param]
RestoreWrite ==
    /\ pc = "restore_loop"
    /\ idx <= Len(selected_parameters)
    /\ LET param == selected_parameters[idx] IN
       \E ok \in BOOLEAN :
          /\ WriteNode(param, initial_settings[param], ok)
          /\ IF ok
             THEN /\ idx' = IF idx = Len(selected_parameters) THEN 0 ELSE idx + 1
                  /\ pc' = IF idx = Len(selected_parameters)
                           THEN "destroy_windows" ELSE "restore_loop"
                  /\ UNCHANGED << raising, outcome >>
             ELSE /\ Raise
                  /\ UNCHANGED idx
    /\ UNCHANGED << connVars, initial_settings, streaming, loopVars >>
    /\ UNCHANGED << keyVars, pureVars >>

\* cv2.destroyAllWindows()
DestroyWindows ==
    /\ pc = "destroy_windows"
    /\ pc' = "destroy_device"
    /\ UNCHANGED << raising, outcome, connVars, devVars, initial_settings, idx,
                    streaming, loopVars, log >>
    /\ UNCHANGED << keyVars, pureVars >>

\* system.destroy_device(); then main returns, or the exception that ended
\* the try block goes on propagating
DestroyDevice ==
    /\ pc = "destroy_device"
    /\ pc' = "exit"
    /\ outcome' = IF raising THEN "raised" ELSE "returned"
    /\ log' = Append(log, Op("destroy_device", "", TRUE))
    /\ UNCHANGED << raising, connVars, devVars, initial_settings, idx,
                    streaming, loopVars >>
    /\ UNCHANGED << keyVars, pureVars >>

(* ------------------------- reading the log ---------------------------- *)
Positions(op)  == {i \in 1..Len(log) : log[i].op = op}
Count(op)      == Cardinality(Positions(op))
Ended          == pc = "exit"
\* the stream was started, so the while loop was entered
LoopEntered    == \E i \in Positions("start_stream") : log[i].ok
\* every selected parameter has been stored
CaptureDone    == DOMAIN initial_settings = Range(selected_parameters)
\* the nodes of the entries of l with operation op, in order
NodesOf(l, op) == LET F[i \in 0..Len(l)] ==
                        IF i = 0 THEN << >>
                        ELSE IF l[i].op = op THEN Append(F[i-1], l[i].node)
                        ELSE F[i-1]
                  IN F[Len(l)]
\* the log after the call of restore_initial_settings
AfterRestore   == IF Positions("restore") = {} THEN << >>
                  ELSE LET r == CHOOSE i \in Positions("restore") : TRUE
                       IN SubSeq(log, r + 1, Len(log))
\* a write that setup made was rejected
SetupWriteRejected ==
    \E i \in Positions("write") :
        /\ ~log[i].ok
        /\ \A r \in Positions("restore") : i < r
CaptureReadFailed == \E i \in Positions("read") : ~log[i].ok

(* ------------------------------ claims -------------------------------- *)
\* C1: when the acquisition loop has terminated (ESC, an exception in an
\* iteration, an interrupt) and the session has ended, restore and disconnect
\* have each been invoked exactly once, restore before disconnect.
C1_TeardownAfterLoop ==
    (Ended /\ LoopEntered) =>
        /\ Count("restore") = 1
        /\ Count("destroy_device") = 1
        /\ \A r \in Positions("restore"), d \in Positions("destroy_device") : r < d

\* C2: a session that stored the settings, applied the configuration, ran
\* the loop and restored without a write failure leaves every selected
\* parameter equal to the value it had before the session's first write.
C2_SnapshotRoundTrip ==
    (Ended /\ LoopEntered /\ Count("destroy_device") = 1) =>
        \A p \in Range(selected_parameters) : dev[p] = dev0[p]

\* C3: a device found after k failed attempts (0 <= k < 6) costs exactly k+1
\* discovery calls and 2k ping calls, and none afterwards; six failed
\* attempts cost exactly 6 discovery calls and 12 ping calls and then the
\* no-device-found error is raised.
C3_RetryBound ==
    /\ devices =>
          /\ tries < tries_max
          /\ discoverCalls = tries + 1
          /\ probeCalls = 2 * tries
    /\ (Ended /\ ~devices) =>
          /\ outcome = "raised"
          /\ discoverCalls = 6
          /\ probeCalls = 12

\* the device answers on the sixth attempt and the session has run to its end
C3_Witness == Ended /\ devices /\ tries = 5 /\ Count("destroy_device") = 1

\* C4: the capture reads each selected parameter exactly once, in list
\* order, and every one of these reads precedes the session's first
\* parameter write.
C4_CaptureBeforeWrite ==
    /\ \E n \in 0..Len(selected_parameters) :
          NodesOf(log, "read") = SubSeq(selected_parameters, 1, n)
    /\ \A r \in Positions("read"), w \in Positions("write") : r < w

\* C5: restore attempts a write for every captured parameter in capture
\* order, also after one of the writes has failed.
C5_BestEffortRestore ==
    (Ended /\ Count("restore") = 1) =>
        NodesOf(AfterRestore, "write") = selected_parameters

\* C6: once a device has been found, every way the session ends releases
\* the device exactly once, as the last device operation.
C6_ReleaseOnce ==
    (Ended /\ devices) =>
        /\ Count("destroy_device") = 1
        /\ log[Len(log)].op = "destroy_device"

\* C7: if the capture succeeded, restore has been invoked when the session
\* ends, on every exit path.
C7_RestoreAfterCapture ==
    (Ended /\ CaptureDone) => Count("restore") >= 1

\* C8: if no device is found, the session ends with the error raised and
\* with no parameter read or written, no stream started, nothing restored
\* and nothing disconnected.
C8_ConnectFailureDoesNothing ==
    (Ended /\ ~devices) =>
        /\ outcome = "raised"
        /\ log = << >>
        /\ dev = dev0
        /\ initial_settings = << >>
        /\ ~streaming

\* all six discovery attempts failed and the session has ended
C8_Witness == Ended /\ ~devices /\ discoverCalls = tries_max

\* C9: if a read of the capture fails, the session ends with no parameter
\* written, no configuration applied and no restore attempted.
C9_ReadFailureMutatesNothing ==
    (Ended /\ CaptureReadFailed) =>
        /\ Positions("write") = {}
        /\ dev = dev0
        /\ Count("restore") = 0

\* C10: if the device rejects a write of setup, the session does not abort:
\* it goes on to start the stream and enter the loop.
C10_ApplyFailureContinues ==
    (Ended /\ SetupWriteRejected) => Count("start_stream") >= 1

\* C11: for any requested exposure time and limits min <= max, the value
\* written is max when the request is above max, min when it is below min
\* and the request otherwise; a value is always written.
C11_ClampToLimits ==
    (pc = "clamped") =>
        /\ applied # NoValue
        /\ (requested > limits[2]) => (applied = limits[2])
        /\ (requested < limits[1]) => (applied = limits[1])
        /\ (limits[1] <= requested /\ requested <= limits[2]) => (applied = requested)

\* a request above the maximum has been clamped to the maximum
C11_Witness == pc = "clamped" /\ requested > limits[2] /\ applied = limits[2]

\* the buffer holds exactly width * height * BYTES_PER_PIXEL bytes
ValidItem ==
    Len(item_data.data) = item_data.width * item_data.height * 2

\* C12: decoding W*H*2 bytes with factor K yields H*K rows of W*K cells, and
\* cell (i, j) is the little-endian 16-bit value of input cell
\* (i div K, j div K); for K = 1 that is the H-by-W input itself.
C12_DecodeShape ==
    (pc = "decoded" /\ ValidItem) =>
        LET W == item_data.width
            H == item_data.height
            K == binning
            Cell(r, c) == item_data.data[2 * (r * W + c) + 1]
                          + 256 * item_data.data[2 * (r * W + c) + 2]
        IN /\ Len(image_16bit) = H * K
           /\ \A i \in 0..(H * K - 1) :
                 /\ Len(image_16bit[i + 1]) = W * K
                 /\ \A j \in 0..(W * K - 1) :
                       image_16bit[i + 1][j + 1] = Cell(i \div K, j \div K)

\* a 2-by-2 buffer of the right length has been decoded and doubled
C12_Witness ==
    /\ pc = "decoded"
    /\ ValidItem
    /\ item_data.width = 2
    /\ item_data.height = 2
    /\ binning = 2
    /\ Len(image_16bit) = 4

\* C13: decoding a block whose length differs from width * height * 2 fails
\* with a buffer-shape error and produces no grid.
C13_ShapeErrorOnBadLength ==
    (pc # "item" /\ ~ValidItem) =>
        /\ pc = "shape_error"
        /\ image_16bit = << >>

\* C14: an acquire or decode error of one iteration is contained to that
\* iteration: it never ends the loop.
C14_IterationErrorsContained ==
    exit_cause \notin {"acquire", "decode"}

\* C15: at every point of the loop at most one raw buffer is checked out,
\* and none from the requeue on: not during decode, render, the release of
\* the copy or the key poll, nor when the next iteration begins.
C15_OneRawBuffer ==
    /\ buffer <= 1
    /\ pc \in (LoopPcs \ {"copy", "requeue"}) => buffer = 0

\* a buffer was acquired, copied and requeued, and its copy is being decoded
C15_Witness == pc = "decode" /\ item /\ buffer = 0

\* C16: the local copy is destroyed before the next acquire and before the
\* loop is left, whether the iteration ends normally, by ESC or by an error
\* raised while the frame is decoded or shown.
C16_CopyReleased ==
    /\ pc \in {"loop", "get_buffer"} => ~item
    /\ (pc \notin LoopPcs /\ exit_cause \in {"esc", "fps"}) => ~item

\* C17: the key is polled once per iteration, after the frame is shown; once
\* a poll has read ESC the loop is left for good and no buffer is acquired
\* any more; an ESC pressed during acquire, decode or render changes nothing
\* until the poll reads it.
C17_CooperativeCancel ==
    /\ [](pc = "wait_key" => rendered)
    /\ [](exit_cause = "esc" => (pc \notin LoopPcs /\ buffer = 0))
    /\ [][(pc \in LoopPcs /\ pc # "loop" /\ pc' = "loop") => pc = "wait_key"]_vars
    /\ [][(exit_cause # "esc" /\ exit_cause' = "esc")
             => (pc = "wait_key" /\ esc_pressed /\ pc' = "stop_stream")]_vars
    /\ [][(~esc_pressed /\ esc_pressed')
             => UNCHANGED << pc, raising, outcome, streaming, loopVars, log,
                             exit_cause, rendered, devVars >>]_vars

\* ESC was pressed before the frame was shown, read by the poll, and the
\* session has run its teardown
C17_Witness ==
    /\ pc = "exit"
    /\ exit_cause = "esc"
    /\ Count("destroy_device") = 1

\* the nodes the session has written
WrittenNodes == {log[i].node : i \in Positions("write")}

\* C18: the parameters stored in the snapshot are exactly the parameters
\* setup writes, and restore writes no parameter outside the snapshot.
C18_SnapshotKeysAreApplyKeys ==
    /\ (pc = "prev_time") => (WrittenNodes = DOMAIN initial_settings)
    /\ Range(NodesOf(AfterRestore, "write")) \subseteq DOMAIN initial_settings

\* C19: the frame interval computation never stops the loop, whatever the
\* two clock readings are, equal ones included.
C19_FrameIntervalDiagnosticOnly ==
    exit_cause # "fps"

\* C20: every parameter write happens while the stream is not active:
\* before the stream is started, or after device.stop_stream() has returned.
C20_WritesOnlyWhileNotStreaming ==
    \A w \in 1..Len(log) :
        (log[w].op = "write") =>
            \/ \A b \in 1..(w - 1) : log[b].op # "start_stream"
            \/ \E e \in 1..(w - 1) : log[e].op = "stop_stream" /\ log[e].ok

\* the loop ran and the settings were written back after the stream stopped
C20_Witness ==
    /\ pc = "exit"
    /\ LoopEntered
    /\ Len(NodesOf(AfterRestore, "write")) = Len(selected_parameters)

(* --------------------- the clamp and the decoding --------------------- *)
\* the session's variables while a single computation is looked at
Parked ==
    /\ raising = FALSE
    /\ outcome = "running"
    /\ tries = 0
    /\ devices = FALSE
    /\ discoverCalls = 0
    /\ probeCalls = 0
    /\ initial_settings = << >>
    /\ idx = 0
    /\ streaming = FALSE
    /\ frame_interval = 0
    /\ buffer = 0
    /\ item = FALSE
    /\ log = << >>
    /\ exit_cause = "none"
    /\ rendered = FALSE
    /\ esc_pressed = FALSE

sessionVars == << raising, outcome, connVars, devVars, initial_settings, idx,
                  streaming, loopVars, log, keyVars >>

\* any request against any limits min <= max
InitClamp ==
    /\ Parked
    /\ pc = "clamp"
    /\ requested \in 0..MaxExposure
    /\ limits \in {l \in (0..MaxExposure) \X (0..MaxExposure) : l[1] <= l[2]}
    /\ dev = DeviceDefaults(limits)
    /\ dev0 = dev
    /\ applied = NoValue
    /\ item_data = NoItem
    /\ binning = BINNING
    /\ image_16bit = << >>

\* lines 194-207 of setup, for the request and the limits at hand
ApplyExposure ==
    /\ pc = "clamp"
    /\ pc' = "clamped"
    /\ applied' = ClampExposure(requested, limits[1], limits[2])
    /\ UNCHANGED << sessionVars, requested, item_data, binning, image_16bit >>

SpecClamp == InitClamp /\ [][ApplyExposure]_vars

\* any buffer of Items, any enlargement factor
InitDecode ==
    /\ Parked
    /\ pc = "item"
    /\ limits = <<1000, 100000>>
    /\ dev = DeviceDefaults(limits)
    /\ dev0 = dev
    /\ requested = EXP_TIME_US
    /\ applied = NoValue
    /\ item_data \in Items
    /\ binning \in 1..MaxBinning
    /\ image_16bit = << >>

\* lines 73-87 of main on the copied buffer; bytes missing from the data are
\* read from the memory behind it
DecodeItem ==
    /\ pc = "item"
    /\ pc' = "decoded"
    /\ LET need  == BytesNeeded(item_data.height, item_data.width)
           short == IF Len(item_data.data) < need
                    THEN need - Len(item_data.data) ELSE 0
       IN \E beyond \in [1..short -> StrayBytes] :
             image_16bit' = Image16(item_data.data \o beyond, item_data.height,
                                    item_data.width, binning)
    /\ UNCHANGED << sessionVars, requested, applied, item_data, binning >>

\* the read behind the end of the data touches memory the process does not
\* own and the process is killed
DecodeFault ==
    /\ pc = "item"
    /\ Len(item_data.data) < BytesNeeded(item_data.height, item_data.width)
    /\ pc' = "fault"
    /\ UNCHANGED << sessionVars, pureVars >>

NextDecode ==
    \/ DecodeItem
    \/ DecodeFault

SpecDecode == InitDecode /\ [][NextDecode]_vars

Next ==
    \/ Discover
    \/ PingHost
    \/ NoDeviceFound
    \/ SelectDevice
    \/ SaveFeatures
    \/ GetNodes
    \/ SetPixelFormat
    \/ StoreInitial
    \/ ApplyWrite
    \/ ReadPrevTime
    \/ StartStream
    \/ ReadCurrTime
    \/ GetBuffer
    \/ CopyBuffer
    \/ RequeueBuffer
    \/ Decode
    \/ ShowFrame
    \/ DestroyItem
    \/ PressEsc
    \/ WaitKey
    \/ Interrupt
    \/ StopStream
    \/ CallRestore
    \/ RestoreWrite
    \/ DestroyWindows
    \/ DestroyDevice

Spec == Init /\ [][Next]_vars

====
